---- MODULE Spec2Model ----
(***************************************************************************)
(* Model of the offline cache controller of urodziny-web (src/sw.js): the  *)
(* install, activate, fetch and message listeners of the service worker,   *)
(* over a cache storage (an ordered list of named caches), a network whose *)
(* answers are chosen by the environment, and the worker's life cycle.     *)
(***************************************************************************)
EXTENDS Integers, Sequences, FiniteSets, TLC

(* ------------------------------ bounds --------------------------------- *)
\* number of fetch events dispatched in one behaviour
MaxEvents == 2
\* number of content versions the server goes through (bodies 1..MaxBody)
MaxBody == 2
\* number of manifest URLs that get a non-nominal answer during one install
MaxFaults == 1

(* --------------------------- program constants -------------------------- *)
CACHE_NAME == "birthday-cache-v1.0.0"
STATIC_CACHE == "static-v1"
DYNAMIC_CACHE == "dynamic-v1"

\* self.location.origin, and the two foreign origins of the manifest
SelfOrigin == "self"
CdnOrigin == "https://cdn.jsdelivr.net"
FontsOrigin == "https://fonts.googleapis.com"

Url(o, p) == [origin |-> o, path |-> p]

STATIC_FILES ==
  << Url(SelfOrigin, "/"),
     Url(SelfOrigin, "/index.html"),
     Url(SelfOrigin, "/style.css"),
     Url(SelfOrigin, "/script.js"),
     Url(CdnOrigin, "/npm/gsap@3.12.5/dist/gsap.min.js"),
     Url(CdnOrigin, "/npm/gsap@3.12.5/dist/ScrollTrigger.min.js"),
     Url(CdnOrigin, "/npm/gsap@3.12.5/dist/ScrollToPlugin.min.js"),
     Url(CdnOrigin, "/npm/canvas-confetti@1.9.3/dist/confetti.browser.min.js"),
     Url(FontsOrigin, "/css2?family=Poppins:wght@300;400;600;800&family=Great+Vibes&display=swap") >>

Manifest == { STATIC_FILES[k] : k \in 1..Len(STATIC_FILES) }

\* the key the same-origin catch looks up: caches.match('/index.html')
OfflinePage == Url(SelfOrigin, "/index.html")
\* the root document of the site
RootDocument == Url(SelfOrigin, "/")
ApiData == Url(SelfOrigin, "/api/data")
GsapUrl == Url(CdnOrigin, "/npm/gsap@3.12.5/dist/gsap.min.js")

\* every request URL of the model: the manifest and one URL outside it
Keys == Manifest \cup { ApiData }

(* ------------------------------ responses ------------------------------- *)
Resp(s, b) == [status |-> s, body |-> b]
\* the value `undefined` (no response)
Undefined == Resp(0, 0)
\* the statuses the network answers with
Statuses == { 200, 203, 404 }
\* Response.ok, the test cache.addAll applies to every fetched response
IsOk(r) == r.status >= 200 /\ r.status <= 299 /\ r.status # 206
\* a rejected network fetch
NetError == Resp(-1, 0)

(* ---------------------------- cache storage ----------------------------- *)
\* generations left behind by an earlier version of the worker
OldCaches == << "static-v0", "dynamic-v0" >>
OldNames == { OldCaches[k] : k \in 1..Len(OldCaches) }
AllNames == OldNames \cup { STATIC_CACHE, DYNAMIC_CACHE }
EmptyCache == [ k \in Keys |-> Undefined ]
\* what the earlier version left in each of its generations (body 0)
OldContent(n) ==
  IF n = "static-v0"
  THEN [ k \in Keys |-> IF k \in { RootDocument, GsapUrl } THEN Resp(200, 0) ELSE Undefined ]
  ELSE [ k \in Keys |-> IF k = ApiData THEN Resp(200, 0) ELSE Undefined ]

VARIABLES
  swState,          \* life cycle: parsed, installing, installed, activating, activated, redundant
  installPc,        \* position of the install listener's promise chain
  activatePc,       \* position of the activate listener's promise chain
  pendingDelete,    \* caches.delete calls started by activate and not finished
  deleted,          \* caches deleted by the activate transition in progress
  skipWaitingFlag,  \* set by self.skipWaiting()
  oldControlling,   \* an older controller still governs open pages
  claimed,          \* self.clients.claim() has been called
  cacheKeys,        \* caches.keys(): names of the existing caches, in creation order
  cacheData,        \* entries of each cache: key -> response or Undefined
  serverVer,        \* content version the server answers with
  ev,               \* the interception in progress (IdleEv when there is none)
  puts,             \* the un-awaited cache writes in flight
  dispatched,       \* number of fetch events dispatched so far
  precache,         \* outcome of the install's pre-cache step: none, ok, failed (addAll
                    \* rejected), storeFailed (caches.open rejected)
  warm,             \* same-origin keys whose miss was answered 200 and delivered
  lastReply,        \* last message posted on a GET_VERSION reply port
  failures          \* a network or cache-store failure occurred in an interception already answered

vars == << swState, installPc, activatePc, pendingDelete, deleted, skipWaitingFlag,
           oldControlling, claimed, cacheKeys, cacheData, serverVer, ev, puts,
           dispatched, precache, warm, lastReply, failures >>

swVars == << swState, installPc, activatePc, pendingDelete, deleted, skipWaitingFlag, claimed >>
histVars == << precache, warm, lastReply, failures >>

Exists(n) == \E k \in 1..Len(cacheKeys) : cacheKeys[k] = n

\* caches.open(name): the cache is created, last in creation order, when absent
OpenKeys(names, n) ==
  IF \E k \in 1..Len(names) : names[k] = n THEN names ELSE Append(names, n)

\* cache.match(key) in one cache
CacheMatch(n, key) == cacheData[n][key]

\* a lookup that consults the dynamic generation only
MatchDynamicOnly(key) ==
  IF Exists(DYNAMIC_CACHE) THEN cacheData[DYNAMIC_CACHE][key] ELSE Undefined

\* caches.match(key): the first existing cache, in creation order, that has the key
MatchAll(key) ==
  LET hits == { k \in 1..Len(cacheKeys) : cacheData[cacheKeys[k]][key] # Undefined }
  IN IF hits = {} THEN Undefined
     ELSE cacheData[cacheKeys[CHOOSE k \in hits : \A j \in hits : k <= j]][key]

\* the copies of a key that the existing caches hold
Copies(key) == { cacheData[cacheKeys[k]][key] : k \in 1..Len(cacheKeys) } \ { Undefined }
Present(key) == Copies(key) # {}
ExistsIn(names, n) == \E k \in 1..Len(names) : names[k] = n

\* a put into a cache that keeps one entry: the others are evicted
PutEntryEvicting(data, n, key, r) ==
  [ data EXCEPT ![n] = [ k \in Keys |-> IF k = key THEN r ELSE Undefined ] ]

\* a put that keeps the entry a key already has
PutEntryKeepFirst(data, n, key, r) ==
  IF data[n][key] # Undefined THEN data ELSE [ data EXCEPT ![n][key] = r ]

\* a put that also writes the entry through to the static generation
PutEntryBoth(data, n, key, r) ==
  [ data EXCEPT ![n][key] = r, ![STATIC_CACHE][key] = r ]

\* cache.put(key, r) into cache n
PutEntry(data, n, key, r) == [ data EXCEPT ![n][key] = r ]


(* ------------------------------ requests -------------------------------- *)
Req(m, u, d) == [method |-> m, url |-> u, destination |-> d]
\* the requests the governed pages issue
Requests ==
  { Req("GET", RootDocument, "document"),
    Req("GET", OfflinePage, "document"),
    Req("GET", ApiData, ""),
    Req("GET", GsapUrl, "script"),
    Req("POST", ApiData, "") }

\* one interception: the fetch event, the position of its promise chain and
\* what it has done so far. The steps of an interception read the cache
\* storage and never write it (every write is a detached, un-awaited task, kept
\* in puts), so interceptions are followed one at a time, while the writes
\* of earlier interceptions run on beside the current one.
IdleEv ==
  [ pc |-> "idle", req |-> Req("", RootDocument, ""),
    id |-> 0,                 \* number of the fetch event, in dispatch order
    responded |-> FALSE,      \* event.respondWith was called
    lookups |-> 0,            \* calls of caches.match
    netCalls |-> 0,           \* calls of fetch
    m |-> "none",             \* caches.match(request): none, hit, miss, error
    mResp |-> Undefined,
    fb |-> "none",            \* caches.match('/index.html'): none, hit, miss, error
    fbResp |-> Undefined,
    netResp |-> Undefined,    \* what fetch(request) settled with
    outKind |-> "none",       \* what respondWith's promise settled with: response, failure
    outResp |-> Undefined,
    afterWarm |-> FALSE ]     \* dispatched after a 200 answer for the same key was delivered

Init ==
  /\ swState = "parsed"
  /\ installPc = "none"
  /\ activatePc = "none"
  /\ pendingDelete = {}
  /\ deleted = {}
  /\ skipWaitingFlag = FALSE
  /\ oldControlling \in BOOLEAN
  /\ claimed = FALSE
  /\ \E k \in 0..Len(OldCaches) : cacheKeys = SubSeq(OldCaches, 1, k)
  /\ cacheData = [ n \in AllNames |-> IF Exists(n) /\ n \in OldNames THEN OldContent(n) ELSE EmptyCache ]
  /\ serverVer = 1
  /\ ev = IdleEv
  /\ puts = {}
  /\ dispatched = 0
  /\ precache = "none"
  /\ warm = {}
  /\ lastReply = ""
  /\ failures = FALSE

(* ------------------------------ install --------------------------------- *)
\* navigator.serviceWorker.register('/sw.js'): the install event is dispatched
Register ==
  /\ swState = "parsed"
  /\ swState' = "installing"
  /\ installPc' = "open"
  /\ UNCHANGED << activatePc, pendingDelete, deleted, skipWaitingFlag, claimed, oldControlling,
                  cacheKeys, cacheData, serverVer, ev, puts, dispatched, histVars >>

\* caches.open(STATIC_CACHE); a rejection goes to the chain's catch
InstallOpen ==
  /\ swState = "installing" /\ installPc = "open"
  /\ \E ok \in BOOLEAN :
       IF ok
       THEN /\ cacheKeys' = OpenKeys(cacheKeys, STATIC_CACHE)
            /\ installPc' = "addAll"
            /\ UNCHANGED precache
       ELSE /\ installPc' = "catch"
            /\ precache' = "storeFailed"
            /\ UNCHANGED cacheKeys
  /\ UNCHANGED << swState, activatePc, pendingDelete, deleted, skipWaitingFlag, claimed, oldControlling,
                  cacheData, serverVer, ev, puts, dispatched, warm, lastReply, failures >>

\* what the network may answer to one manifest URL instead of 200
FaultOutcomes == { NetError } \cup { Resp(s, serverVer) : s \in Statuses \ {200} }
\* the answers of one install: at most MaxFaults URLs get a fault, the others 200
NetPlans ==
  UNION { [ S -> FaultOutcomes ] : S \in { T \in SUBSET Manifest : Cardinality(T) <= MaxFaults } }
PlanResponses(plan) ==
  [ u \in Manifest |-> IF u \in DOMAIN plan THEN plan[u] ELSE Resp(200, serverVer) ]

\* an addAll that accepts whatever the network answered
AddAllAnyStatus(resps) == \A u \in Manifest : resps[u] # NetError

\* cache.addAll rejects when a fetch fails or a response is not ok
AddAllOk(resps) == \A u \in Manifest : resps[u] # NetError /\ IsOk(resps[u])
\* one cache.add per URL: the responses that are ok are stored, the others not
AddEach(data, resps) ==
  [ data EXCEPT ![STATIC_CACHE] =
      [ k \in Keys |-> IF k \in Manifest /\ resps[k] # NetError /\ IsOk(resps[k])
                       THEN resps[k] ELSE @[k] ] ]

\* cache.addAll(STATIC_FILES): every response is stored, or none is
AddAll(data, resps) ==
  IF AddAllOk(resps)
  THEN [ data EXCEPT ![STATIC_CACHE] = [ k \in Keys |-> IF k \in Manifest THEN resps[k] ELSE @[k] ] ]
  ELSE data

\* the plans in which every URL is answered 200 or is refused (a failed fetch
\* or a status that is not ok)
RefusingPlans == { plan \in NetPlans : \A u \in DOMAIN plan : plan[u] = NetError \/ ~IsOk(plan[u]) }

\* cache => cache.addAll(STATIC_FILES), the network answering by one of plans
InstallAddAllWith(plans) ==
  /\ swState = "installing" /\ installPc = "addAll"
  /\ \E plan \in plans :
       LET resps == PlanResponses(plan) IN
       /\ cacheData' = AddAll(cacheData, resps)
       /\ installPc' = IF AddAllOk(resps) THEN "skipWaiting" ELSE "catch"
       /\ precache' = IF AddAllOk(resps) THEN "ok" ELSE "failed"
  /\ UNCHANGED << swState, activatePc, pendingDelete, deleted, skipWaitingFlag, claimed, oldControlling,
                  cacheKeys, serverVer, ev, puts, dispatched, warm, lastReply, failures >>

\* the pre-cache step with every answer the network may give
InstallAddAll == InstallAddAllWith(NetPlans)

\* the pre-cache step with the answers that decide its outcome: what status
\* a stored entry has is of no consequence to the fetch listener, which never
\* reads the status of a cached response
InstallAddAllRefusing == InstallAddAllWith(RefusingPlans)

\* an install chain whose success handler does not call skipWaiting()
InstallNoSkipWaiting ==
  /\ swState = "installing" /\ installPc = "skipWaiting"
  /\ installPc' = "fulfilled"
  /\ UNCHANGED << swState, activatePc, pendingDelete, deleted, skipWaitingFlag, claimed, oldControlling,
                  cacheKeys, cacheData, serverVer, ev, puts, dispatched, histVars >>

\* .then(() => self.skipWaiting())
InstallSkipWaiting ==
  /\ swState = "installing" /\ installPc = "skipWaiting"
  /\ skipWaitingFlag' = TRUE
  /\ installPc' = "fulfilled"
  /\ UNCHANGED << swState, activatePc, pendingDelete, deleted, claimed, oldControlling,
                  cacheKeys, cacheData, serverVer, ev, puts, dispatched, histVars >>

\* what the chain's .catch handler settles the waitUntil promise with: it logs
\* and returns, so the promise fulfils
CatchSettles == "fulfilled"

InstallCatch ==
  /\ swState = "installing" /\ installPc = "catch"
  /\ installPc' = CatchSettles
  /\ UNCHANGED << swState, activatePc, pendingDelete, deleted, skipWaitingFlag, claimed, oldControlling,
                  cacheKeys, cacheData, serverVer, ev, puts, dispatched, histVars >>

\* the promise given to event.waitUntil has settled: installed when it
\* fulfilled, redundant when it rejected
InstallSettle ==
  /\ swState = "installing" /\ installPc \in { "fulfilled", "rejected" }
  /\ swState' = IF installPc = "fulfilled" THEN "installed" ELSE "redundant"
  /\ installPc' = "done"
  /\ UNCHANGED << activatePc, pendingDelete, deleted, skipWaitingFlag, claimed, oldControlling,
                  cacheKeys, cacheData, serverVer, ev, puts, dispatched, histVars >>

(* ------------------------------ activate -------------------------------- *)
\* a cleanup predicate that spares only the dynamic generation
IsNotDynamic(cacheName) == cacheName # DYNAMIC_CACHE

\* a cleanup that deletes the oldest generation
IsOldest(cacheName) == Len(cacheKeys) > 0 /\ cacheName = cacheKeys[1]

\* the activate listener's cleanup predicate
IsStale(cacheName) == cacheName # STATIC_CACHE /\ cacheName # DYNAMIC_CACHE

\* a worker that always waits for the older controller's pages to close
MayActivateWaiting == ~oldControlling

\* the worker activates once no older controller governs a page, or at once
\* when skipWaiting was called
MayActivate == skipWaitingFlag \/ ~oldControlling

ActivateStart ==
  /\ swState = "installed" /\ MayActivate
  /\ swState' = "activating"
  /\ activatePc' = "keys"
  /\ oldControlling' = FALSE
  /\ UNCHANGED << installPc, pendingDelete, deleted, skipWaitingFlag, claimed,
                  cacheKeys, cacheData, serverVer, ev, puts, dispatched, histVars >>

\* caches.keys().then(cacheNames => Promise.all(cacheNames.map(...))):
\* a caches.delete is started for every stale name
ActivateKeys ==
  /\ swState = "activating" /\ activatePc = "keys"
  /\ pendingDelete' = { cacheKeys[k] : k \in { j \in 1..Len(cacheKeys) : IsStale(cacheKeys[j]) } }
  /\ activatePc' = "deleting"
  /\ UNCHANGED << swState, installPc, deleted, skipWaitingFlag, claimed, oldControlling,
                  cacheKeys, cacheData, serverVer, ev, puts, dispatched, precache, warm, lastReply, failures >>

\* caches.delete(name): the cache and its entries are gone
DeleteKeys(names, n) == SelectSeq(names, LAMBDA x : x # n)

ActivateDelete(n) ==
  /\ swState = "activating" /\ activatePc = "deleting"
  /\ n \in pendingDelete
  /\ cacheKeys' = DeleteKeys(cacheKeys, n)
  /\ cacheData' = [ cacheData EXCEPT ![n] = EmptyCache ]
  /\ pendingDelete' = pendingDelete \ { n }
  /\ deleted' = deleted \cup { n }
  /\ UNCHANGED << swState, installPc, activatePc, skipWaitingFlag, claimed, oldControlling,
                  serverVer, ev, puts, dispatched, histVars >>

\* a claim that does not wait for the deletions to finish
ActivateClaimEarly ==
  /\ swState = "activating" /\ activatePc = "deleting"
  /\ claimed' = TRUE
  /\ activatePc' = "claimed"
  /\ UNCHANGED << swState, installPc, pendingDelete, deleted, skipWaitingFlag, oldControlling,
                  cacheKeys, cacheData, serverVer, ev, puts, dispatched, histVars >>

\* .then(() => self.clients.claim()), once Promise.all has fulfilled
ActivateClaim ==
  /\ swState = "activating" /\ activatePc = "deleting"
  /\ pendingDelete = {}
  /\ claimed' = TRUE
  /\ activatePc' = "claimed"
  /\ UNCHANGED << swState, installPc, pendingDelete, deleted, skipWaitingFlag, oldControlling,
                  cacheKeys, cacheData, serverVer, ev, puts, dispatched, histVars >>

ActivateSettle ==
  /\ swState = "activating" /\ activatePc = "claimed"
  /\ swState' = "activated"
  /\ activatePc' = "done"
  /\ deleted' = {}
  /\ UNCHANGED << installPc, pendingDelete, skipWaitingFlag, claimed, oldControlling,
                  cacheKeys, cacheData, serverVer, ev, puts, dispatched, histVars >>


\* the activate listener is invoked a second time on the active worker
ActivateAgain ==
  /\ swState = "activated" /\ activatePc = "done"
  /\ swState' = "activating"
  /\ activatePc' = "keys"
  /\ UNCHANGED << installPc, pendingDelete, deleted, skipWaitingFlag, claimed, oldControlling,
                  cacheKeys, cacheData, serverVer, ev, puts, dispatched, histVars >>

(* ------------------------------- fetch ---------------------------------- *)
\* a listener without the method guard
RouteAnyMethod(request) ==
  IF request.url.origin = SelfOrigin THEN "so_match" ELSE "xo_fetch"

\* a listener that stops intercepting once an interception has failed
RouteGivingUp(request) ==
  IF failures \/ request.method # "GET" THEN "pass"
  ELSE IF request.url.origin = SelfOrigin THEN "so_match"
  ELSE "xo_fetch"

\* a listener that serves every GET cache-first
RouteCacheFirst(request) ==
  IF request.method # "GET" THEN "pass" ELSE "so_match"

\* the fetch listener's synchronous part: where the request goes
Route(request) ==
  IF request.method # "GET" THEN "pass"
  ELSE IF request.url.origin = SelfOrigin THEN "so_match"
  ELSE "xo_fetch"

\* what fetch(request) may settle with
NetOutcomes == { NetError } \cup { Resp(s, serverVer) : s \in Statuses }

\* a write guard that accepts every response
CacheableAny(response) == response # Undefined

\* "Cache successful responses": the test guarding the cache write
Cacheable(response) == response # Undefined /\ response.status = 200

\* a fetch event reaches both fetch listeners; the monitoring listener only
\* calls event.waitUntil
FetchEvent(request) ==
  /\ swState = "activated"
  /\ ev.pc = "idle"
  /\ dispatched < MaxEvents
  /\ dispatched' = dispatched + 1
  /\ ev' = [ IdleEv EXCEPT !.pc = Route(request),
                          !.id = dispatched + 1,
                          !.req = request,
                          !.responded = (Route(request) # "pass"),
                          !.afterWarm = (request.url \in warm) ]
  /\ UNCHANGED << swVars, oldControlling, cacheKeys, cacheData, serverVer, puts, histVars >>

\* a handler that answers with a made-up page when it has nothing to return
SettleFabricating(e, r) ==
  [ e EXCEPT !.pc = "respond",
             !.outKind = "response",
             !.outResp = IF r = Undefined THEN Resp(200, 0) ELSE r ]

\* the value respondWith's promise settles with: a response, or undefined / a
\* rejection, which the caller sees as a failed request
Settle(e, r) ==
  [ e EXCEPT !.pc = "respond",
             !.outKind = IF r = Undefined THEN "failure" ELSE "response",
             !.outResp = r ]

\* a cache-first handler that refreshes the entry it served: on a hit it
\* answers from the cache and writes the server's current response
SoMatchRevalidating ==
  /\ ev.pc = "so_match"
  /\ \E ok \in BOOLEAN :
       LET e == [ ev EXCEPT !.lookups = @ + 1 ]
           cachedResponse == MatchAll(e.req.url)
       IN /\ ev' = IF ~ok THEN [ e EXCEPT !.m = "error", !.pc = "so_catch" ]
                   ELSE IF cachedResponse # Undefined
                        THEN Settle([ e EXCEPT !.m = "hit", !.mResp = cachedResponse ], cachedResponse)
                        ELSE [ e EXCEPT !.m = "miss", !.pc = "so_fetch" ]
          /\ puts' = IF ok /\ cachedResponse # Undefined
                     THEN puts \cup { [ id |-> e.id, url |-> e.req.url,
                                        resp |-> Resp(200, serverVer), stage |-> "open" ] }
                     ELSE puts
  /\ UNCHANGED << swVars, oldControlling, cacheKeys, cacheData, serverVer, dispatched, histVars >>

\* caches.match(request).then(cachedResponse => ...)
SoMatch ==
  /\ ev.pc = "so_match"
  /\ \E ok \in BOOLEAN :
       LET e == [ ev EXCEPT !.lookups = @ + 1 ]
           cachedResponse == MatchAll(e.req.url)
       IN ev' = IF ~ok THEN [ e EXCEPT !.m = "error", !.pc = "so_catch" ]
                ELSE IF cachedResponse # Undefined
                     THEN Settle([ e EXCEPT !.m = "hit", !.mResp = cachedResponse ], cachedResponse)
                     ELSE [ e EXCEPT !.m = "miss", !.pc = "so_fetch" ]
  /\ UNCHANGED << swVars, oldControlling, cacheKeys, cacheData, serverVer, puts, dispatched, histVars >>

\* runtime writes that land in the static generation
WriteStatic == STATIC_CACHE

\* the cache the runtime writes go to
WriteCache == DYNAMIC_CACHE

\* a handler that starts the write for whatever the network answered
StartPutAlways(e, response) ==
  { [ id |-> e.id, url |-> e.req.url, resp |-> response, stage |-> "open" ] }

\* the un-awaited caches.open(DYNAMIC_CACHE).then(cache => cache.put(request, responseClone))
\* that .then(response => ...) starts for a cacheable response
StartPut(e, response) ==
  IF Cacheable(response)
  THEN { [ id |-> e.id, url |-> e.req.url, resp |-> response, stage |-> "open" ] }
  ELSE {}

\* a handler that treats every status other than 200 as a failed fetch
NetThenThrowing(e, response) ==
  IF response.status = 200
  THEN Settle([ e EXCEPT !.netResp = response ], response)
  ELSE [ e EXCEPT !.netResp = response,
                  !.pc = IF e.req.url.origin = SelfOrigin THEN "so_catch" ELSE "xo_catch" ]

\* fetch(request).then(response => ...): the cache write is started, not
\* awaited, and the response is returned
NetThen(e, response) == Settle([ e EXCEPT !.netResp = response ], response)

SoFetch ==
  /\ ev.pc = "so_fetch"
  /\ \E o \in NetOutcomes :
       LET e == [ ev EXCEPT !.netCalls = @ + 1 ]
       IN IF o = NetError
          THEN /\ ev' = [ e EXCEPT !.netResp = NetError, !.pc = "so_catch" ]
               /\ UNCHANGED puts
          ELSE /\ ev' = NetThen(e, o)
               /\ puts' = puts \cup StartPut(e, o)
  /\ UNCHANGED << swVars, oldControlling, cacheKeys, cacheData, serverVer, dispatched, histVars >>

\* a fallback that looks up the root document
FallbackRoot == RootDocument

\* the key of the offline fallback
FallbackKey == OfflinePage

\* a catch handler that falls back to the offline page for every request
SoCatchAnyDestination ==
  /\ ev.pc = "so_catch"
  /\ \E ok \in BOOLEAN :
       LET e == [ ev EXCEPT !.lookups = @ + 1 ]
           page == MatchAll(OfflinePage)
       IN ev' = IF ~ok THEN Settle([ e EXCEPT !.fb = "error" ], Undefined)
                ELSE Settle([ e EXCEPT !.fb = IF page = Undefined THEN "miss" ELSE "hit",
                                       !.fbResp = page ], page)
  /\ UNCHANGED << swVars, oldControlling, cacheKeys, cacheData, serverVer, puts, dispatched, histVars >>

\* .catch(() => { if (request.destination === 'document') return caches.match('/index.html'); })
SoCatch ==
  /\ ev.pc = "so_catch"
  /\ IF ev.req.destination = "document"
     THEN \E ok \in BOOLEAN :
            LET e == [ ev EXCEPT !.lookups = @ + 1 ]
                page == MatchAll(FallbackKey)
            IN ev' = IF ~ok THEN Settle([ e EXCEPT !.fb = "error" ], Undefined)
                     ELSE Settle([ e EXCEPT !.fb = IF page = Undefined THEN "miss" ELSE "hit",
                                            !.fbResp = page ], page)
     ELSE ev' = Settle(ev, Undefined)
  /\ UNCHANGED << swVars, oldControlling, cacheKeys, cacheData, serverVer, puts, dispatched, histVars >>

\* fetch(request).then(response => ...) of the cross-origin branch
XoFetch ==
  /\ ev.pc = "xo_fetch"
  /\ \E o \in NetOutcomes :
       LET e == [ ev EXCEPT !.netCalls = @ + 1 ]
       IN IF o = NetError
          THEN /\ ev' = [ e EXCEPT !.netResp = NetError, !.pc = "xo_catch" ]
               /\ UNCHANGED puts
          ELSE /\ ev' = NetThen(e, o)
               /\ puts' = puts \cup StartPut(e, o)
  /\ UNCHANGED << swVars, oldControlling, cacheKeys, cacheData, serverVer, dispatched, histVars >>

\* .catch(() => caches.match(request))
XoCatch ==
  /\ ev.pc = "xo_catch"
  /\ \E ok \in BOOLEAN :
       LET e == [ ev EXCEPT !.lookups = @ + 1 ]
           cachedResponse == MatchAll(e.req.url)
       IN ev' = IF ~ok THEN Settle([ e EXCEPT !.m = "error" ], Undefined)
                ELSE Settle([ e EXCEPT !.m = IF cachedResponse = Undefined THEN "miss" ELSE "hit",
                                       !.mResp = cachedResponse ], cachedResponse)
  /\ UNCHANGED << swVars, oldControlling, cacheKeys, cacheData, serverVer, puts, dispatched, histVars >>

\* a fetch or a cache lookup of the interception was rejected
Failed(e) == e.netResp = NetError \/ e.m = "error" \/ e.fb = "error"

\* the settled value of respondWith's promise reaches the caller, which ends
\* the interception
Deliver ==
  /\ ev.pc = "respond"
  /\ ev' = IdleEv
  /\ warm' = IF /\ ev.req.url.origin = SelfOrigin
                /\ ev.m = "miss"
                /\ ev.outKind = "response" /\ ev.outResp.status = 200
             THEN warm \cup { ev.req.url } ELSE warm
  /\ failures' = (failures \/ Failed(ev))
  /\ UNCHANGED << swVars, oldControlling, cacheKeys, cacheData, serverVer, puts, dispatched,
                  precache, lastReply >>

\* a request the listener returned from without respondWith: the browser
\* performs it as if there were no worker
PassThrough ==
  /\ ev.pc = "pass"
  /\ ev' = IdleEv
  /\ UNCHANGED << swVars, oldControlling, cacheKeys, cacheData, serverVer, puts, dispatched, histVars >>

\* an awaited caches.open: its rejection sends the interception that started
\* the write to its catch handler
PutOpenAwaited(p) ==
  /\ p \in puts /\ p.stage = "open"
  /\ \E ok \in BOOLEAN :
       IF ok
       THEN /\ cacheKeys' = OpenKeys(cacheKeys, DYNAMIC_CACHE)
            /\ puts' = (puts \ { p }) \cup { [ p EXCEPT !.stage = "put" ] }
            /\ UNCHANGED ev
       ELSE /\ puts' = puts \ { p }
            /\ ev' = IF ev.id = p.id /\ ev.pc = "respond"
                     THEN [ ev EXCEPT !.pc = IF p.url.origin = SelfOrigin THEN "so_catch" ELSE "xo_catch",
                                      !.outKind = "none", !.outResp = Undefined ]
                     ELSE ev
            /\ UNCHANGED cacheKeys
  /\ UNCHANGED << swVars, oldControlling, cacheData, serverVer, dispatched, histVars >>

\* caches.open(DYNAMIC_CACHE) of an un-awaited write; a rejection is dropped
PutOpen(p) ==
  /\ p \in puts /\ p.stage = "open"
  /\ \E ok \in BOOLEAN :
       IF ok
       THEN /\ cacheKeys' = OpenKeys(cacheKeys, WriteCache)
            /\ puts' = (puts \ { p }) \cup { [ p EXCEPT !.stage = "put" ] }
       ELSE /\ puts' = puts \ { p }
            /\ UNCHANGED cacheKeys
  /\ UNCHANGED << swVars, oldControlling, cacheData, serverVer, ev, dispatched, histVars >>

\* cache.put(request, responseClone); a rejection is dropped
PutWrite(p) ==
  /\ p \in puts /\ p.stage = "put"
  /\ \E ok \in BOOLEAN :
       IF ok
       THEN cacheData' = PutEntry(cacheData, WriteCache, p.url, p.resp)
       ELSE UNCHANGED cacheData
  /\ puts' = puts \ { p }
  /\ UNCHANGED << swVars, oldControlling, cacheKeys, serverVer, ev, dispatched, histVars >>

(* ------------------------------ messages -------------------------------- *)
Running == swState \in { "installing", "installed", "activating", "activated" }

\* message { type: 'SKIP_WAITING' }: self.skipWaiting()
MessageSkipWaiting ==
  /\ Running
  /\ skipWaitingFlag' = TRUE
  /\ UNCHANGED << swState, installPc, activatePc, pendingDelete, deleted, claimed, oldControlling,
                  cacheKeys, cacheData, serverVer, ev, puts, dispatched, histVars >>

\* message { type: 'GET_VERSION' }: event.ports[0].postMessage({ version: CACHE_NAME })
MessageGetVersion ==
  /\ Running
  /\ lastReply' = CACHE_NAME
  /\ UNCHANGED << swVars, oldControlling, cacheKeys, cacheData, serverVer, ev, puts, dispatched,
                  precache, warm, failures >>

(* ----------------------------- environment ------------------------------ *)
\* the server's content changes. The worker sees the content only in the
\* answer to a fetch, so a change is taken at the point where a fetch is about
\* to be made.
ServerUpdate ==
  /\ serverVer < MaxBody
  /\ installPc = "addAll" \/ ev.pc \in { "so_fetch", "xo_fetch" }
  /\ serverVer' = serverVer + 1
  /\ UNCHANGED << swVars, oldControlling, cacheKeys, cacheData, ev, puts, dispatched, histVars >>

\* the pages governed by the older controller are closed
OldPagesClose ==
  /\ oldControlling
  /\ oldControlling' = FALSE
  /\ UNCHANGED << swVars, cacheKeys, cacheData, serverVer, ev, puts, dispatched, histVars >>

\* the events of the worker's life cycle, the pre-cache step and the
\* GET_VERSION message left aside
LifeCycle ==
  \/ Register
  \/ InstallOpen
  \/ InstallSkipWaiting
  \/ InstallCatch
  \/ InstallSettle
  \/ ActivateStart
  \/ ActivateKeys
  \/ \E n \in AllNames : ActivateDelete(n)
  \/ ActivateClaim
  \/ ActivateSettle
  \/ MessageSkipWaiting
  \/ ServerUpdate
  \/ OldPagesClose

\* the worker at run time: life cycle, SKIP_WAITING and fetch interception.
\* The GET_VERSION handler reads a constant and writes to the reply port
\* only; it is followed in NextInstall.
Next ==
  \/ LifeCycle
  \/ InstallAddAllRefusing
  \/ \E request \in Requests : FetchEvent(request)
  \/ SoMatch
  \/ SoFetch
  \/ SoCatch
  \/ XoFetch
  \/ XoCatch
  \/ Deliver
  \/ PassThrough
  \/ \E p \in puts : PutOpen(p)
  \/ \E p \in puts : PutWrite(p)

Spec == Init /\ [][Next]_vars

\* install, activate (also invoked again) and both messages, with every
\* answer the network may give to the pre-cache step
NextInstall ==
  \/ LifeCycle
  \/ InstallAddAll
  \/ MessageGetVersion
  \/ ActivateAgain

SpecInstall == Init /\ [][NextInstall]_vars

\* the life cycle with the browser's scheduling: a waiting worker that may
\* activate is activated
SpecLive == Init /\ [][NextInstall]_vars /\ WF_vars(ActivateStart)

(* ------------------------------- claims --------------------------------- *)
SameOriginGet(e) == e.req.method = "GET" /\ e.req.url.origin = SelfOrigin
CrossOriginGet(e) == e.req.method = "GET" /\ e.req.url.origin # SelfOrigin
StaticKeys == { u \in Keys : cacheData[STATIC_CACHE][u] # Undefined }

\* C1: a same-origin GET whose key some existing generation holds when the
\* lookup is made (and the lookup itself does not fail) is answered with a
\* cached copy of that key, and the interception has made no network fetch.
C1_CacheFirstHit ==
  [][ ( /\ SameOriginGet(ev)
        /\ ev.lookups = 0 /\ ev'.lookups = 1
        /\ ev'.m # "error"
        /\ Present(ev.req.url) )
      => ( /\ ev'.pc = "respond"
           /\ ev'.outKind = "response"
           /\ ev'.outResp \in Copies(ev.req.url)
           /\ ev'.netCalls = 0 ) ]_vars

\* C1 witness: a same-origin GET settled from the cache without a fetch
C1_Witness ==
  /\ SameOriginGet(ev) /\ ev.pc = "respond"
  /\ ev.m = "hit" /\ ev.netCalls = 0
  /\ ev.outResp \in Copies(ev.req.url)

\* C2: after a successful install, a same-origin GET absent from every
\* generation makes exactly one network fetch, and once a 200 answer to such a
\* miss has been delivered to the caller, every later identical request is a
\* cache hit without a fetch.
C2_WarmUp ==
  (SameOriginGet(ev) /\ precache = "ok") =>
    /\ (ev.m = "miss" /\ ev.pc \in { "respond", "so_catch" }) => ev.netCalls = 1
    /\ (ev.afterWarm /\ ev.m \notin { "none", "error" }) => (ev.m = "hit" /\ ev.netCalls = 0)

\* C3: a cross-origin GET whose fetch settles with a response hands exactly
\* that response to the caller, after one fetch and no cache lookup; the write
\* the interception started carries that response, and when the write lands
\* the dynamic generation's entry for the request is that response.
C3_NetworkFirst ==
  /\ []( ( /\ CrossOriginGet(ev) /\ ev.pc = "respond"
           /\ ev.netResp \notin { Undefined, NetError } )
         => ( /\ ev.outKind = "response" /\ ev.outResp = ev.netResp
              /\ ev.lookups = 0 /\ ev.netCalls = 1 ) )
  /\ [](\A p \in puts : p.id = ev.id => p.resp = ev.netResp)
  /\ [][ \A p \in puts :
           ( /\ p.url.origin # SelfOrigin /\ p.stage = "put"
             /\ p \notin puts' /\ cacheData' # cacheData )
           => ( /\ ExistsIn(cacheKeys', DYNAMIC_CACHE)
                /\ cacheData'[DYNAMIC_CACHE][p.url] = p.resp ) ]_vars

\* C3 witness: the only interception so far is a cross-origin GET answered
\* 200; its response is being handed over, its write has landed in the
\* dynamic generation, and an older copy of the key still sits in another one
C3_Witness ==
  /\ CrossOriginGet(ev) /\ ev.pc = "respond" /\ dispatched = 1
  /\ ev.netResp.status = 200 /\ ev.outResp = ev.netResp
  /\ puts = {}
  /\ Exists(DYNAMIC_CACHE) /\ cacheData[DYNAMIC_CACHE][ev.req.url] = ev.netResp
  /\ \E c \in Copies(ev.req.url) : c # ev.netResp

\* C4: when the fetch of a cross-origin GET fails, the catch looks the
\* request up; if the lookup does not itself fail, a key that some existing
\* generation holds is answered with a cached copy, and a key that none
\* holds ends as a failed request.
C4_CrossOriginFallback ==
  /\ []( (CrossOriginGet(ev) /\ ev.pc = "respond" /\ ev.netResp = NetError)
         => (ev.m # "none" /\ ev.lookups = 1) )
  /\ [][ ( /\ CrossOriginGet(ev) /\ ev.netResp = NetError
           /\ ev.outKind = "none" /\ ev'.outKind # "none"
           /\ ev'.m # "error" )
         => IF Present(ev.req.url)
            THEN ev'.outKind = "response" /\ ev'.outResp \in Copies(ev.req.url)
            ELSE ev'.outKind = "failure" /\ ev'.outResp = Undefined ]_vars

\* C4 witness: a cross-origin GET whose fetch failed is answered from the cache
C4_Witness ==
  /\ CrossOriginGet(ev) /\ ev.pc = "respond" /\ ev.netResp = NetError
  /\ ev.m = "hit" /\ ev.outKind = "response" /\ ev.outResp = ev.mResp

\* C5 (as stated): after an install whose pre-cache step succeeded, every
\* manifest URL has an entry with status 200 in the static generation.
C5_StaticAll200 ==
  precache = "ok" =>
    /\ Exists(STATIC_CACHE)
    /\ \A u \in Manifest : cacheData[STATIC_CACHE][u].status = 200

\* C5 (amended): after an install whose pre-cache step succeeded, every
\* manifest URL has an entry with a successful (2xx) status in the static
\* generation.
C5_StaticAllSuccessful ==
  precache = "ok" =>
    /\ Exists(STATIC_CACHE)
    /\ \A u \in Manifest :
         /\ cacheData[STATIC_CACHE][u] # Undefined
         /\ cacheData[STATIC_CACHE][u].status \in 200..299

\* C5 witness: the worker is active after a successful pre-cache in which one
\* manifest URL was answered with a successful status other than 200
C5_Witness ==
  /\ precache = "ok" /\ swState = "activated"
  /\ StaticKeys = Manifest
  /\ \E u \in Manifest : cacheData[STATIC_CACHE][u].status # 200

\* C6: when a manifest URL fails to fetch during install, the promise given
\* to waitUntil does not fulfil and the worker never becomes installed,
\* activating or active.
C6_FailedInstallStaysUninstalled ==
  precache = "failed" =>
    /\ installPc # "fulfilled"
    /\ swState \notin { "installed", "activating", "activated" }

\* C7: pre-caching is all-or-nothing: after an install in which a manifest
\* URL failed, the static generation holds no manifest entry (so not '/'),
\* and at no time, in particular while a request is being answered, does the
\* static generation hold only a part of the manifest.
C7_AllOrNothing ==
  /\ precache = "failed" => (StaticKeys = {} /\ cacheData[STATIC_CACHE][RootDocument] = Undefined)
  /\ StaticKeys \in { {}, Manifest }

\* C7 witness: after an install in which a manifest URL failed, the static
\* generation exists, is empty, and an interception is being answered
C7_Witness ==
  /\ precache = "failed" /\ Exists(STATIC_CACHE) /\ StaticKeys = {}
  /\ ev.pc = "respond"

\* C8: when the activate transition has finished its cleanup, no cache with a
\* name other than the current static and dynamic names exists, and no step
\* of the activate transition creates, deletes or alters the current static
\* or dynamic generation.
C8_ActivateCleanup ==
  /\ []( (activatePc = "claimed" \/ swState = "activated")
         => \A k \in 1..Len(cacheKeys) : cacheKeys[k] \in { STATIC_CACHE, DYNAMIC_CACHE } )
  /\ [][ swState = "activating"
         => \A n \in { STATIC_CACHE, DYNAMIC_CACHE } :
              /\ cacheData'[n] = cacheData[n]
              /\ ExistsIn(cacheKeys', n) = ExistsIn(cacheKeys, n) ]_vars

\* C8 witness: the cleanup has deleted both old generations and the filled
\* static generation is still there
C8_Witness ==
  /\ activatePc = "claimed" /\ deleted = OldNames
  /\ Exists(STATIC_CACHE) /\ StaticKeys = Manifest

\* C9: for a request whose method is not GET the listener never calls
\* respondWith, never looks the cache up, never fetches, and never starts a
\* cache write.
C9_NonGetUntouched ==
  (ev.pc # "idle" /\ ev.req.method # "GET") =>
    /\ ev.pc = "pass"
    /\ ~ev.responded
    /\ ev.lookups = 0 /\ ev.netCalls = 0
    /\ \A p \in puts : p.id # ev.id

\* C9 witness: a POST was dispatched and is passed through
C9_Witness == ev.pc = "pass" /\ ev.req.method = "POST" /\ ~ev.responded

\* the step in which the same-origin catch handler runs after the fetch
\* failed on a cache miss
CatchAfterFailedFetch ==
  /\ SameOriginGet(ev) /\ ev.m = "miss" /\ ev.netResp = NetError
  /\ ev.outKind = "none" /\ ev'.outKind # "none"

HasFallback ==
  IF ev.req.url.origin = SelfOrigin
  THEN ev.req.destination = "document" /\ Present(FallbackKey)
  ELSE Present(ev.req.url)

\* C11: on the step that settles an interception, a response handed to the
\* caller is a copy of an entry some generation holds (for the request or for
\* the offline page) or the response the network returned for this
\* interception; when the fetch failed and no fallback entry exists the
\* caller gets a failed request.
C11_NeverInvents ==
  [][ (ev.outKind = "none" /\ ev'.outKind # "none") =>
        /\ ev'.outKind = "response" =>
             ev'.outResp \in Copies(ev.req.url) \cup Copies(FallbackKey)
                             \cup ({ ev'.netResp } \ { Undefined, NetError })
        /\ (ev'.netResp = NetError /\ ~HasFallback) =>
             (ev'.outKind = "failure" /\ ev'.outResp = Undefined) ]_vars

\* C11 witness: a document request missed the cache, its fetch failed, no
\* offline page is cached, and the caller gets a failed request
C11_Witness ==
  /\ ev.pc = "respond" /\ ev.req.destination = "document"
  /\ ev.m = "miss" /\ ev.netResp = NetError /\ ev.fb = "miss"
  /\ ~Present(FallbackKey)
  /\ ev.outKind = "failure" /\ ev.outResp = Undefined

\* a version tag is baked into a generation name: the name contains it
BakedInto(tag, name) ==
  /\ tag # ""
  /\ \E k \in 1..Len(name) :
       k + Len(tag) - 1 <= Len(name) /\ SubSeq(name, k, k + Len(tag) - 1) = tag

\* C12: every reply to a GET_VERSION message carries the version tag that the
\* names of the generations the worker reads and writes, the static and the
\* dynamic cache name, are derived from.
C12_VersionNamesGenerations ==
  lastReply # "" =>
    /\ BakedInto(lastReply, STATIC_CACHE)
    /\ BakedInto(lastReply, DYNAMIC_CACHE)

\* the worker is installed and waiting, skipWaiting() was called, and an older
\* controller still governs open pages
WaitingSkipped == swState = "installed" /\ skipWaitingFlag /\ oldControlling

C14_OnlySuccessfulStored ==
  \A n \in { STATIC_CACHE, DYNAMIC_CACHE } : \A k \in Keys :
    cacheData[n][k] # Undefined =>
      (cacheData[n][k] # NetError /\ cacheData[n][k].status \in 200..299)

\* C14 witness: the static generation is filled, a runtime write has landed
\* in the dynamic generation, and the network has also answered an
\* interception with a status that is not successful
C14_Witness ==
  /\ StaticKeys = Manifest
  /\ Exists(DYNAMIC_CACHE)
  /\ \E k \in Keys : cacheData[DYNAMIC_CACHE][k] # Undefined
  /\ ev.pc = "respond" /\ ev.netResp.status = 404

\* C15: after a successful install, a same-origin GET whose cache lookup
\* failed is handled as a miss:
\* by the time it is answered the network fetch has been made, and the
\* caller gets the network's response.
C15_StoreFailureIsMiss ==
  (precache = "ok" /\ SameOriginGet(ev) /\ ev.m = "error" /\ ev.pc = "respond") =>
    /\ ev.netCalls = 1
    /\ ev.netResp \notin { Undefined, NetError } =>
         (ev.outKind = "response" /\ ev.outResp = ev.netResp)

\* C16: a worker whose install failed on a manifest URL never activates,
\* never deletes a generation, never claims a page and never handles a
\* request.
C16_FailedInstallNeverGoverns ==
  precache = "failed" =>
    /\ swState \notin { "activating", "activated" }
    /\ deleted = {} /\ pendingDelete = {}
    /\ ~claimed
    /\ ev.pc = "idle" /\ dispatched = 0

\* C17: when the pre-cache step succeeded, skipWaiting() has been called by
\* the time the install chain settles, while the worker is still installing,
\* so that the installed worker's activation is enabled although an older
\* controller still governs open pages.
C17_InstallSkipsWaiting ==
  /\ (precache = "ok" /\ installPc \in { "fulfilled", "done" }) => skipWaitingFlag
  /\ (precache = "ok" /\ installPc = "fulfilled") => swState = "installing"
  /\ (precache = "ok" /\ swState = "installed") => ENABLED ActivateStart

\* C17 witness: the pre-cache step succeeded, and the installed worker is
\* about to replace an older controller whose pages are open
C17_Witness ==
  /\ precache = "ok" /\ swState = "installed"
  /\ oldControlling /\ skipWaitingFlag

\* a generation that the cleanup predicate marks for deletion still exists
StaleExists == \E k \in 1..Len(cacheKeys) : IsStale(cacheKeys[k])

\* C18: clients.claim() is called in the activate transition, by the time
\* the worker is active, and only once every deletion it started has
\* finished; no page is claimed and no request is handled by the worker
\* while a stale generation exists.
C18_ClaimAfterCleanup ==
  /\ swState = "activated" => claimed
  /\ claimed => /\ swState \in { "activating", "activated" }
                /\ pendingDelete = {}
                /\ ~StaleExists
  /\ ev.pc # "idle" => (claimed /\ ~StaleExists)

\* C18 witness: both generations of the older version were deleted before
\* the pages were claimed, still within the activate transition
C18_Witness ==
  /\ swState = "activating" /\ claimed
  /\ deleted = OldNames /\ pendingDelete = {}
  /\ ~StaleExists

\* a failure lies in the past: a fetch or a cache lookup of an interception
\* already answered was rejected, or the install's pre-cache step failed
Troubled == failures \/ precache \in { "failed", "storeFailed" }

\* C19: after failures the active worker still accepts every request, and
\* every step of a later GET interception follows the rules: a same-origin
\* GET is looked up first, a hit is answered from the cache without a fetch,
\* a miss is fetched once and the network's response returned; a
\* cross-origin GET is fetched first and the network's response returned,
\* and only a failed fetch is followed by a lookup, whose result is returned.
C19_FailuresDoNotStopHandling ==
  /\ []( (Troubled /\ swState = "activated" /\ ev.pc = "idle" /\ dispatched < MaxEvents)
         => \A request \in Requests : ENABLED FetchEvent(request) )
  /\ [][ Troubled =>
         /\ (ev.pc = "idle" /\ ev'.pc # "idle" /\ ev'.req.method = "GET") =>
              /\ ev'.responded
              /\ ev'.pc = IF ev'.req.url.origin = SelfOrigin THEN "so_match" ELSE "xo_fetch"
         /\ (SameOriginGet(ev) /\ ev.lookups = 0 /\ ev'.lookups = 1 /\ ev'.m # "error") =>
              /\ ev.netCalls = 0
              /\ IF Present(ev.req.url)
                 THEN /\ ev'.pc = "respond" /\ ev'.netCalls = 0
                      /\ ev'.outResp \in Copies(ev.req.url)
                 ELSE ev'.pc = "so_fetch"
         /\ (SameOriginGet(ev) /\ ev.netCalls = 0 /\ ev'.netCalls = 1) =>
              /\ ev.m = "miss"
              /\ ev'.netResp # NetError =>
                   (ev'.pc = "respond" /\ ev'.outResp = ev'.netResp)
         /\ (CrossOriginGet(ev) /\ ev.netCalls = 0 /\ ev'.netCalls = 1) =>
              /\ ev.lookups = 0
              /\ ev'.netResp # NetError =>
                   (ev'.pc = "respond" /\ ev'.outResp = ev'.netResp)
         /\ (CrossOriginGet(ev) /\ ev.lookups = 0 /\ ev'.lookups = 1) =>
              /\ ev.netResp = NetError
              /\ ev'.m # "error" => ev'.outResp = MatchAll(ev.req.url)
     ]_vars

\* C19 witness: after a failed install and an interception in which a fetch
\* or a lookup failed, a same-origin GET missed the cache, was fetched once
\* and is answered with the network's response
C19_Witness ==
  /\ failures /\ precache = "failed"
  /\ SameOriginGet(ev) /\ ev.pc = "respond"
  /\ ev.m = "miss" /\ ev.netCalls = 1
  /\ ev.outKind = "response" /\ ev.outResp = ev.netResp /\ ev.netResp.status = 200

\* C20: a step in which a generation ceases to exist, or an entry of a
\* generation is removed, is a deletion of the activate transition, and an
\* entry is removed only together with its generation; so install, fetch
\* interception and message handling delete nothing.
C20_CleanupOnlyInActivate ==
  [][ \A n \in AllNames :
        /\ (ExistsIn(cacheKeys, n) /\ ~ExistsIn(cacheKeys', n)) =>
             (swState = "activating" /\ activatePc = "deleting" /\ n \in pendingDelete)
        /\ (\E k \in Keys : cacheData[n][k] # Undefined /\ cacheData'[n][k] = Undefined) =>
             (swState = "activating" /\ ExistsIn(cacheKeys, n) /\ ~ExistsIn(cacheKeys', n)) ]_vars

\* C20 witness: install, activation, fetch interceptions and their cache
\* writes have all run, and the entries written are in place
C20_Witness ==
  /\ swState = "activated" /\ ev.pc = "idle" /\ puts = {}
  /\ dispatched >= 1
  /\ StaticKeys = Manifest
  /\ Exists(DYNAMIC_CACHE) /\ cacheData[DYNAMIC_CACHE][ApiData] # Undefined

\* C21: after a successful install, on the step that hands the caller the
\* status-200 network response of a same-origin miss, the dynamic generation
\* exists and holds an entry for the request.
C21_StoredBeforeReturn ==
  [][ ( /\ precache = "ok" /\ SameOriginGet(ev)
        /\ ev.pc = "respond" /\ ev'.pc = "idle"
        /\ ev.m = "miss" /\ ev.netResp.status = 200 )
      => ( /\ Exists(DYNAMIC_CACHE)
           /\ cacheData[DYNAMIC_CACHE][ev.req.url] # Undefined ) ]_vars

\* the write p lands and its response becomes the entry of its key
LandsAsWritten(p) == PutWrite(p) /\ cacheData'[DYNAMIC_CACHE][p.url] = p.resp

\* C22: a same-origin GET that misses the cache goes to the network although
\* a write for the same key is still in flight, and a status-200 answer starts
\* a write of its own; every write in flight can land, and one that lands
\* leaves the response it carries as the dynamic generation's one entry for
\* the key, whatever was there before, and touches no other entry.
C22_NoSingleFlight ==
  /\ [][ ( /\ SameOriginGet(ev) /\ ev.lookups = 0 /\ ev'.lookups = 1
           /\ ev'.m # "error" /\ ~Present(ev.req.url) )
         => ev'.pc = "so_fetch" ]_vars
  /\ [][ ( /\ SameOriginGet(ev) /\ ev.netCalls = 0 /\ ev'.netCalls = 1
           /\ ev'.netResp.status = 200 )
         => \E p \in puts' \ puts :
              p.id = ev.id /\ p.url = ev.req.url /\ p.resp = ev'.netResp ]_vars
  /\ [](\A p \in puts : p.stage = "put" => ENABLED LandsAsWritten(p))
  /\ [][ \A p \in puts :
           (p.stage = "put" /\ p \notin puts' /\ cacheData' # cacheData)
           => /\ cacheData'[DYNAMIC_CACHE][p.url] = p.resp
              /\ \A n \in AllNames : \A k \in Keys :
                   (n # DYNAMIC_CACHE \/ k # p.url) => cacheData'[n][k] = cacheData[n][k] ]_vars

\* C22 witness: two interceptions for the same same-origin key both missed
\* and both fetched; their two writes, carrying different responses, are in
\* flight together
C22_Witness ==
  \E p \in puts : \E q \in puts :
    /\ p.id # q.id /\ p.url = q.url /\ p.url.origin = SelfOrigin
    /\ p.resp # q.resp
    /\ p.stage = "put" /\ q.stage = "put"

\* C23: a cross-origin GET interception makes its one network fetch before
\* any cache lookup, also when a copy of the request is cached: it is
\* answered after exactly one fetch, and it has looked the cache up (once)
\* only if that fetch failed.
C23_FetchBeforeLookup ==
  CrossOriginGet(ev) =>
    /\ ev.netCalls <= 1 /\ ev.lookups <= 1
    /\ ev.pc = "xo_fetch" => (ev.netCalls = 0 /\ ev.lookups = 0)
    /\ ev.pc \in { "xo_catch", "respond" } => ev.netCalls = 1
    /\ ev.pc = "xo_catch" => (ev.netResp = NetError /\ ev.lookups = 0)
    /\ ev.lookups = 1 => ev.netResp = NetError
    /\ ev.pc \notin { "xo_fetch", "xo_catch", "respond" } => ev.pc = "idle"

\* C23 witness: a cross-origin GET of which a copy is cached was fetched from
\* the network and is answered without any lookup
C23_Witness ==
  /\ CrossOriginGet(ev) /\ ev.pc = "respond"
  /\ Present(ev.req.url)
  /\ ev.netCalls = 1 /\ ev.lookups = 0
  /\ ev.outResp = ev.netResp /\ ev.outResp \notin Copies(ev.req.url)

\* the activate listener is running again, after a run that got as far as
\* claiming the pages
Rerun == swState = "activating" /\ claimed

\* C24: a second run of the activate transition, with no other event since
\* the first, finds no generation to delete and leaves the set of
\* generations and their entries exactly as the first run left them.
C24_ActivateIdempotent ==
  /\ []((Rerun /\ activatePc = "deleting") => pendingDelete = {})
  /\ [][ Rerun => (cacheKeys' = cacheKeys /\ cacheData' = cacheData) ]_vars

\* C24 witness: the second run has enumerated the caches, the filled static
\* generation among them, and is about to claim the pages again
C24_Witness ==
  /\ Rerun /\ activatePc = "deleting"
  /\ Exists(STATIC_CACHE) /\ StaticKeys = Manifest

\* C25: the dynamic generation does not exist before the first fetch event;
\* the step that creates it is the caches.open of a write that an
\* interception started, and an interception starts a write only on
\* receiving a status-200 response from the network, so that hits, failed
\* fetches and other statuses never lead to its creation.
C25_DynamicCreatedLazily ==
  /\ [](Exists(DYNAMIC_CACHE) => dispatched >= 1)
  /\ [][ (~Exists(DYNAMIC_CACHE) /\ ExistsIn(cacheKeys', DYNAMIC_CACHE)) =>
           (\E p \in puts : p.stage = "open" /\ p.resp.status = 200 /\ p \notin puts') ]_vars
  /\ [][ \A p \in puts' \ puts :
           p.stage = "open" =>
             /\ p.id = ev.id /\ ev.netCalls = 0 /\ ev'.netCalls = 1
             /\ p.resp = ev'.netResp /\ p.resp.status = 200 ]_vars

\* C25 witness: the first interception received a status-200 response, and
\* the write it started has just created the dynamic generation, still empty
C25_Witness ==
  /\ dispatched = 1 /\ ev.pc = "respond" /\ ev.netResp.status = 200
  /\ Exists(DYNAMIC_CACHE) /\ cacheData[DYNAMIC_CACHE] = EmptyCache
  /\ \E p \in puts : p.stage = "put" /\ p.id = ev.id

\* C26: a step that adds or changes an entry of the static generation is the
\* pre-cache step of the install transition, and every cache write made
\* once the worker is active changes the dynamic generation alone.
C26_StaticWrittenByInstallOnly ==
  [][ /\ cacheData'[STATIC_CACHE] # cacheData[STATIC_CACHE] =>
           (swState = "installing" /\ installPc = "addAll")
      /\ (swState = "activated" /\ cacheData' # cacheData) =>
           \A n \in AllNames \ { DYNAMIC_CACHE } : cacheData'[n] = cacheData[n] ]_vars

\* C26 witness: a runtime write has put a newer response for a manifest URL
\* into the dynamic generation, and the static generation still holds the
\* entry the install stored
C26_Witness ==
  /\ StaticKeys = Manifest /\ Exists(DYNAMIC_CACHE) /\ puts = {}
  /\ cacheData[DYNAMIC_CACHE][GsapUrl] # Undefined
  /\ cacheData[DYNAMIC_CACHE][GsapUrl] # cacheData[STATIC_CACHE][GsapUrl]

\* the network answered the interception in progress with a status other
\* than 200
AnsweredNot200 ==
  /\ ev.req.method = "GET"
  /\ ev.netResp \notin { Undefined, NetError } /\ ev.netResp.status # 200

\* C27: a GET interception that the network answered with a status other
\* than 200 hands the caller that very response, on either path; it has
\* started no cache write and made no fallback lookup (on the cross-origin
\* path no lookup at all), and no entry of the dynamic generation has a
\* status other than 200.
C27_Not200PassedThrough ==
  /\ AnsweredNot200 =>
       /\ ev.pc = "respond"
       /\ ev.outKind = "response" /\ ev.outResp = ev.netResp
       /\ ev.fb = "none"
       /\ ev.req.url.origin # SelfOrigin => (ev.lookups = 0 /\ ev.m = "none")
       /\ ev.req.url.origin = SelfOrigin => (ev.lookups = 1 /\ ev.m = "miss")
       /\ \A p \in puts : p.id # ev.id
  /\ \A p \in puts : p.resp.status = 200
  /\ \A k \in Keys : cacheData[DYNAMIC_CACHE][k] # Undefined
                       => cacheData[DYNAMIC_CACHE][k].status = 200

\* C27 witness: a cross-origin GET of which a copy is cached was answered 404
\* by the network, and the caller gets the 404
C27_Witness ==
  /\ AnsweredNot200 /\ ev.req.url.origin # SelfOrigin
  /\ ev.netResp.status = 404 /\ Present(ev.req.url)
  /\ ev.pc = "respond" /\ ev.outResp = ev.netResp

\* C28: the answer to a GET interception does not depend on its cache
\* write: a status-200 network response is settled as the answer on the
\* step that starts the write, no step of a write (the open or the put,
\* fulfilled or rejected) changes the interception, and the interception
\* answered by the network never falls back, whatever became of its write.
C28_AnswerIndependentOfWrite ==
  /\ []( (ev.req.method = "GET" /\ ev.netResp \notin { Undefined, NetError })
         => ( /\ ev.pc = "respond" /\ ev.fb = "none"
              /\ ev.outKind = "response" /\ ev.outResp = ev.netResp ) )
  /\ [][ ( /\ ev.req.method = "GET" /\ ev.netCalls = 0 /\ ev'.netCalls = 1
           /\ ev'.netResp \notin { Undefined, NetError } /\ ev'.netResp.status = 200 )
         => ( /\ ev'.pc = "respond" /\ ev'.outResp = ev'.netResp
              /\ \E p \in puts' : p.id = ev.id /\ p.stage = "open" ) ]_vars
  /\ [][ (puts' # puts /\ ev'.netCalls = ev.netCalls /\ ev.pc # "idle") => ev' = ev ]_vars

\* C28 witness: the caches.open of the first interception's write was
\* rejected, no dynamic generation exists, and the caller is handed the
\* network's status-200 response
C28_Witness ==
  /\ dispatched = 1 /\ ev.pc = "respond"
  /\ ev.netResp.status = 200 /\ ev.outResp = ev.netResp
  /\ puts = {} /\ ~Exists(DYNAMIC_CACHE)

\* the lookup or the fetch of the same-origin interception in progress failed
SameOriginFailed ==
  SameOriginGet(ev) /\ (ev.m = "error" \/ ev.netResp = NetError)

\* C29: the fallback lookup is made for a failed same-origin document
\* request and for no other interception; such a request, whatever its URL,
\* is answered with the '/index.html' entry when the lookup finds one and
\* ends as a failure otherwise, and what the lookup finds is decided by
\* '/index.html' alone, so that without it the request fails even when '/'
\* is cached.
C29_OfflinePageOnly ==
  /\ [](ev.fb # "none" => (SameOriginFailed /\ ev.req.destination = "document"))
  /\ []( (SameOriginFailed /\ ev.pc = "respond") =>
           IF ev.req.destination = "document"
           THEN /\ ev.fb # "none"
                /\ ev.fb = "hit" => (ev.outKind = "response" /\ ev.outResp = ev.fbResp)
                /\ ev.fb # "hit" => ev.outKind = "failure"
           ELSE ev.fb = "none" /\ ev.outKind = "failure" )
  /\ [][ (ev.fb = "none" /\ ev'.fb \in { "hit", "miss" }) =>
           IF Present(OfflinePage)
           THEN ev'.fb = "hit" /\ ev'.fbResp \in Copies(OfflinePage)
           ELSE ev'.fb = "miss" /\ ev'.outKind = "failure" ]_vars

\* C29 witness: a document request for '/index.html' failed while '/' is
\* cached and '/index.html' is not, and it ends as a failure
C29_Witness ==
  /\ SameOriginFailed /\ ev.req.destination = "document" /\ ev.pc = "respond"
  /\ Present(RootDocument) /\ ~Present(OfflinePage)
  /\ ev.fb = "miss" /\ ev.outKind = "failure"

\* the same-origin keys the pages request
SameOriginKeys == { r.url : r \in { q \in Requests : q.url.origin = SelfOrigin } }

\* the worker is active, key k is cached, no write for k is in flight and no
\* interception for k is past a miss and about to fetch; this holds in
\* particular when no interception for k is in flight at all
Settled(k) ==
  /\ swState = "activated"
  /\ MatchAll(k) # Undefined
  /\ \A p \in puts : p.url # k
  /\ ~(ev.pc = "so_fetch" /\ ev.req.url = k)

\* C30: an interception that is not a miss starts no cache write; and once
\* the active worker has nothing in flight for a cached same-origin key, no
\* step changes the cached response for that key or brings a write for it
\* in flight again, whatever requests follow.
C30_NeverRefreshed ==
  /\ [](\A p \in puts : (p.id = ev.id /\ SameOriginGet(ev)) => ev.m = "miss")
  /\ [][\A k \in SameOriginKeys :
          Settled(k) => (Settled(k)' /\ MatchAll(k)' = MatchAll(k))]_vars

\* C30 witness: the server's content has changed since '/' was cached, and a
\* request for '/' is answered with the old cached copy, without a fetch or a
\* write
C30_Witness ==
  /\ SameOriginGet(ev) /\ ev.pc = "respond" /\ ev.m = "hit"
  /\ ev.netCalls = 0 /\ ev.outResp = MatchAll(ev.req.url)
  /\ ev.outResp.body < serverVer
  /\ \A p \in puts : p.url # ev.req.url

====
